---- MODULE Spec2Model ----
(***************************************************************************)
(* Model of the frame extraction core of vlms4vids                         *)
(* (src/src/extractors/utils.py): VideoProcessingConfig,                   *)
(* transform_video_stream, extract_frames_from_buffer,                     *)
(* extract_frames_from_video and _time_to_seconds.                         *)
(*                                                                         *)
(* Conventions.                                                            *)
(*  - A Python Optional value is a sequence of length 0 (None) or 1.       *)
(*  - A float scale factor is an exact fraction <<num, den>> with den > 0; *)
(*    the product orig * scale is the fraction (orig * num) / den.         *)
(*  - A time string "HH:MM:SS.xxx" is the sequence of its ':'-separated    *)
(*    fields, the seconds field counted in milliseconds; seconds are       *)
(*    counted in milliseconds throughout.                                  *)
(*  - An ffmpeg stream is the sequence of the filter nodes applied to the  *)
(*    input, oldest first.                                                 *)
(*  - A numpy frame is a record of its shape and its row-major bytes.      *)
(***************************************************************************)
EXTENDS Integers, Sequences, FiniteSets, TLC

VARIABLES pc, fn, config, output_path, orig, stream, dims, frame_size,
          buffer, max_frames, i, frames, files, probes, runs, err

vars == <<pc, fn, config, output_path, orig, stream, dims, frame_size,
          buffer, max_frames, i, frames, files, probes, runs, err>>

(* ------------------------------ bounds -------------------------------- *)
MaxDim == 2
MaxFrames == 2
MaxBufLen == 7
MaxOutLen == 7

(* --------------------------- Python values ---------------------------- *)
NONE == << >>

Some(x) == <<x>>

IsNone(o) == Len(o) = 0

\* truthiness of an Optional number: None and 0 are falsy
TruthyNum(o) == Len(o) = 1 /\ o[1] # 0

\* truthiness of an Optional string or tuple: None and the empty one are falsy
TruthySeq(o) == Len(o) = 1 /\ Len(o[1]) > 0

\* truthiness of an Optional float held as a fraction
TruthyScale(o) == Len(o) = 1 /\ o[1][1] # 0

\* int(x) of the fraction n / d, d > 0: truncation toward zero
PyInt(n, d) == IF n >= 0 THEN n \div d ELSE -((-n) \div d)

Min(a, b) == IF a <= b THEN a ELSE b

(* ------------------------------- inputs ------------------------------- *)
Bytes == {0, 255}

Scales == {<<-1, 2>>, <<0, 1>>, <<1, 2>>, <<2, 3>>, <<1, 1>>, <<3, 2>>}

ResizeDims == {<<2, 1>>}

FpsValues == {0, 1}

StartTimes == {<<0, 0, 5000>>}

EndTimes == {<<0, 0, 2000>>, <<0, 1, 0>>, <<7>>}

Opt(S) == {NONE} \cup {Some(x) : x \in S}

VideoProcessingConfig ==
  [resize_dims : Opt(ResizeDims), resize_scale : Opt(Scales),
   fps : Opt(FpsValues), start_time : Opt(StartTimes),
   end_time : Opt(EndTimes), max_frames : Opt(0..MaxFrames)]

DefaultConfig ==
  [resize_dims |-> NONE, resize_scale |-> NONE, fps |-> Some(1),
   start_time |-> NONE, end_time |-> NONE, max_frames |-> NONE]

OutputPaths == {NONE, Some(""), Some("out")}

OrigDims == (1..MaxDim) \X (1..MaxDim)

SeqsUpTo(S, n) == UNION {[1..k -> S] : k \in 0..n}

\* what the decode process can write to its standard output
DecodeOutputs == {[p \in 1..n |-> p - 1] : n \in 0..MaxOutLen}

(* ------------------------------ errors -------------------------------- *)
NoError == "none"
ScaleError == "ValueError: resize_scale must be between 0 and 1"
TimeError == "ValueError: not enough values to unpack"
RangeError == "ValueError: range() arg 3 must not be zero"
ReshapeError == "ValueError: cannot reshape array"
ProbeError == "ffmpeg.Error: ffprobe"
NoVideoStream == "StopIteration"
DecodeError == "ffmpeg.Error: ffmpeg"
SaveError == "OSError: save"

Init ==
  /\ pc = "idle"
  /\ fn = "none"
  /\ config = NONE
  /\ output_path = NONE
  /\ orig = NONE
  /\ stream = << >>
  /\ dims = NONE
  /\ frame_size = 0
  /\ buffer = << >>
  /\ max_frames = NONE
  /\ i = 0
  /\ frames = << >>
  /\ files = << >>
  /\ probes = 0
  /\ runs = 0
  /\ err = NoError

(* ----------------------- transform_video_stream ----------------------- *)
\* the range check with the lower bound included
ScaleInRange_ZeroAllowed(s) == 0 <= s[1] /\ s[1] <= s[2]

\* not 0 < config.resize_scale <= 1, negated
ScaleInRange(s) == 0 < s[1] /\ s[1] <= s[2]

\* the stream's filter(name, ...) call: one more node at the end
Filter(st, name, kw, val) == Append(st, [name |-> name, kw |-> kw, val |-> val])

\* the dimension computation with resize_dims looked at first
TargetDims_DimsFirst(c, ow, oh) ==
  IF TruthySeq(c.resize_dims)
  THEN Some(<<c.resize_dims[1][1], c.resize_dims[1][2]>>)
  ELSE IF IsNone(c.resize_scale)
  THEN Some(<<ow, oh>>)
  ELSE IF ~ScaleInRange(c.resize_scale[1])
  THEN NONE
  ELSE Some(<<PyInt(ow * c.resize_scale[1][1], c.resize_scale[1][2]),
              PyInt(oh * c.resize_scale[1][1], c.resize_scale[1][2])>>)

\* the dimension computation; NONE when it raises
TargetDims(c, ow, oh) ==
  IF ~IsNone(c.resize_scale)
  THEN IF ~ScaleInRange(c.resize_scale[1])
       THEN NONE
       ELSE Some(<<PyInt(ow * c.resize_scale[1][1], c.resize_scale[1][2]),
                   PyInt(oh * c.resize_scale[1][1], c.resize_scale[1][2])>>)
  ELSE Some(<<IF TruthySeq(c.resize_dims) THEN c.resize_dims[1][1] ELSE ow,
              IF TruthySeq(c.resize_dims) THEN c.resize_dims[1][2] ELSE oh>>)

\* the filters applied with the scale filter first
ApplyFilters_ScaleFirst(st, c, width, height) ==
  LET s1 == IF TruthyScale(c.resize_scale) \/ TruthySeq(c.resize_dims)
            THEN Filter(st, "scale", "", <<width, height>>)
            ELSE st
  IN IF TruthyNum(c.fps) THEN Filter(s1, "fps", "fps", <<c.fps[1]>>)
     ELSE s1

\* the filters applied one by one
ApplyFilters(st, c, width, height) ==
  LET s1 == IF TruthyNum(c.fps) THEN Filter(st, "fps", "fps", <<c.fps[1]>>)
            ELSE st
  IN IF TruthyScale(c.resize_scale) \/ TruthySeq(c.resize_dims)
     THEN Filter(s1, "scale", "", <<width, height>>)
     ELSE s1

\* the whole function: the error it raises, or the stream and dimensions
transform_video_stream(st, c, ow, oh) ==
  LET d == TargetDims(c, ow, oh)
  IN IF IsNone(d)
     THEN [err |-> ScaleError, stream |-> st, dims |-> NONE]
     ELSE [err |-> NoError, stream |-> ApplyFilters(st, c, d[1][1], d[1][2]),
           dims |-> d]

(* --------------------------- _time_to_seconds -------------------------- *)
\* h, m, s = time_str.split(':') unpacks only three fields
TimeUnpacks(t) == Len(t) = 0 \/ Len(t) = 3

time_to_seconds(t) ==
  IF Len(t) = 0 THEN 0 ELSE t[1] * 3600000 + t[2] * 60000 + t[3]

(* ---------------------- extract_frames_from_buffer --------------------- *)
\* max_frames and len(frames) >= max_frames
CapReached(mf, n) == TruthyNum(mf) /\ n >= mf[1]

\* the slice taken one byte late
Chunk_OneLate(buf, k, fs) == SubSeq(buf, k + 2, Min(k + fs + 1, Len(buf)))

\* buffer[i:i + frame_size], i counted from 0
Chunk(buf, k, fs) == SubSeq(buf, k + 1, Min(k + fs, Len(buf)))

\* np.frombuffer(...).reshape((height, width, 3)) succeeds
Reshapes(bytes, d) == Len(bytes) = d[2] * d[1] * 3

Frame(bytes, d) == [shape |-> <<d[2], d[1], 3>>, data |-> bytes]

RECURSIVE Digits(_)
Digits(n) == IF n < 10 THEN <<n>> ELSE Append(Digits(n \div 10), n % 10)

RECURSIVE PadZero(_, _)
PadZero(ds, w) == IF Len(ds) >= w THEN ds ELSE PadZero(<<0>> \o ds, w)

\* the file name numbered from 0
FrameFileName_ZeroBased(dir, n) ==
  [dir |-> dir, stem |-> "frame_", digits |-> PadZero(Digits(n - 1), 6),
   ext |-> ".jpg"]

\* f"{output_path}/frame_{n:06d}.jpg"
FrameFileName(dir, n) ==
  [dir |-> dir, stem |-> "frame_", digits |-> PadZero(Digits(n), 6),
   ext |-> ".jpg"]

\* output_path is truthy
SavesFrames(op) == Len(op) = 1 /\ op[1] # ""

\* VideoProcessingConfig(...): a dataclass, no __post_init__, no validation
Construct ==
  /\ pc = "idle"
  /\ \E c \in VideoProcessingConfig : config' = Some(c)
  /\ pc' = "built"
  /\ UNCHANGED <<fn, output_path, orig, stream, dims, frame_size, buffer,
                 max_frames, i, frames, files, probes, runs, err>>

(* ----------------------- direct calls of the parts -------------------- *)
\* transform_video_stream(stream, config, orig_width, orig_height), called
\* on a fresh input stream
CallTransform ==
  /\ pc = "built"
  /\ \E o \in OrigDims :
       LET r == transform_video_stream(<< >>, config[1], o[1], o[2])
       IN /\ orig' = Some(o)
          /\ stream' = r.stream
          /\ dims' = r.dims
          /\ err' = r.err
          /\ pc' = IF r.err = NoError THEN "done" ELSE "error"
  /\ fn' = "transform"
  /\ UNCHANGED <<config, output_path, frame_size, buffer, max_frames, i,
                 frames, files, probes, runs>>

\* frames = [] and the start of for i in range(0, len(buffer), frame_size)
EnterLoop(fs) ==
  /\ frames' = << >>
  /\ i' = 0
  /\ IF fs = 0
     THEN pc' = "error" /\ err' = RangeError
     ELSE pc' = "loop" /\ err' = NoError

\* extract_frames_from_buffer(buffer, frame_size, width, height, max_frames,
\* output_path)
CallBuffer ==
  /\ pc = "idle"
  /\ \E b \in SeqsUpTo(Bytes, MaxBufLen), d \in OrigDims,
        mf \in Opt(0..MaxFrames), op \in OutputPaths :
       \E fs \in {0, d[1] * d[2] * 3, d[1] * d[2] * 3 + 1} :
          /\ buffer' = b
          /\ dims' = Some(d)
          /\ frame_size' = fs
          /\ max_frames' = mf
          /\ output_path' = op
          /\ EnterLoop(fs)
  /\ fn' = "buffer"
  /\ UNCHANGED <<config, orig, stream, files, probes, runs>>

(* ---------------------- extract_frames_from_video ---------------------- *)
\* config = config or VideoProcessingConfig(), the input node and the time
\* range filters
CallVideo ==
  /\ pc \in {"idle", "built"}
  /\ \E op \in OutputPaths : output_path' = op
  /\ LET c == IF IsNone(config) THEN DefaultConfig ELSE config[1]
         s1 == IF TruthySeq(c.start_time)
               THEN Filter(<< >>, "setpts", "start_time", c.start_time[1])
               ELSE << >>
         st == IF TruthySeq(c.start_time) THEN c.start_time[1]
               ELSE <<0, 0, 0>>
     IN /\ config' = Some(c)
        /\ IF ~TruthySeq(c.end_time)
           THEN stream' = s1 /\ pc' = "probe" /\ err' = NoError
           ELSE IF ~(TimeUnpacks(c.end_time[1]) /\ TimeUnpacks(st))
           THEN stream' = s1 /\ pc' = "error" /\ err' = TimeError
           ELSE /\ stream' = Filter(s1, "setpts", "duration",
                       <<time_to_seconds(c.end_time[1]) - time_to_seconds(st)>>)
                /\ pc' = "probe"
                /\ err' = NoError
  /\ fn' = "video"
  /\ UNCHANGED <<orig, dims, frame_size, buffer, max_frames, i, frames,
                 files, probes, runs>>

\* ffmpeg.probe(input_path) and the first video stream's width and height
Probe ==
  /\ pc = "probe"
  /\ probes' = probes + 1
  /\ \/ \E o \in OrigDims : orig' = Some(o) /\ pc' = "transform" /\ err' = err
     \/ orig' = orig /\ pc' = "error" /\ err' = ProbeError
     \/ orig' = orig /\ pc' = "error" /\ err' = NoVideoStream
  /\ UNCHANGED <<fn, config, output_path, stream, dims, frame_size, buffer,
                 max_frames, i, frames, files, runs>>

\* stream, width, height = transform_video_stream(...)
Transform ==
  /\ pc = "transform"
  /\ LET r == transform_video_stream(stream, config[1], orig[1][1], orig[1][2])
     IN /\ stream' = r.stream
        /\ dims' = r.dims
        /\ err' = r.err
        /\ pc' = IF r.err = NoError THEN "run" ELSE "error"
  /\ UNCHANGED <<fn, config, output_path, orig, frame_size, buffer,
                 max_frames, i, frames, files, probes, runs>>

\* the run repeated once after a failure
RunDecode_Retry ==
  /\ pc = "run"
  /\ runs' = runs + 1
  /\ stream' = Filter(stream, "output", "pipe:", <<"rawvideo", "rgb24">>)
  /\ \/ /\ pc' = IF runs = 0 THEN "run" ELSE "error"
        /\ err' = DecodeError
        /\ UNCHANGED <<buffer, frame_size, max_frames, i, frames>>
     \/ /\ \E out \in DecodeOutputs : buffer' = out
        /\ frame_size' = dims[1][1] * dims[1][2] * 3
        /\ max_frames' = config[1].max_frames
        /\ EnterLoop(dims[1][1] * dims[1][2] * 3)
  /\ UNCHANGED <<fn, config, output_path, orig, dims, files, probes>>

\* the output node, stream.run(...) and the call of the demuxer
RunDecode ==
  /\ pc = "run"
  /\ runs' = runs + 1
  /\ stream' = Filter(stream, "output", "pipe:", <<"rawvideo", "rgb24">>)
  /\ \/ /\ pc' = "error"
        /\ err' = DecodeError
        /\ UNCHANGED <<buffer, frame_size, max_frames, i, frames>>
     \/ /\ \E out \in DecodeOutputs : buffer' = out
        /\ frame_size' = dims[1][1] * dims[1][2] * 3
        /\ max_frames' = config[1].max_frames
        /\ EnterLoop(dims[1][1] * dims[1][2] * 3)
  /\ UNCHANGED <<fn, config, output_path, orig, dims, files, probes>>

(* -------------------- the loop of extract_frames_from_buffer ----------- *)
\* the range is exhausted
LoopEnd ==
  /\ pc = "loop"
  /\ i >= Len(buffer)
  /\ pc' = "done"
  /\ UNCHANGED <<fn, config, output_path, orig, stream, dims, frame_size,
                 buffer, max_frames, i, frames, files, probes, runs, err>>

\* one pass of the loop body up to the append
LoopBody ==
  /\ pc = "loop"
  /\ i < Len(buffer)
  /\ LET frame_bytes == Chunk(buffer, i, frame_size)
     IN IF CapReached(max_frames, Len(frames))
        THEN pc' = "done" /\ UNCHANGED <<frames, err, i>>
        ELSE IF Len(frame_bytes) # frame_size
        THEN pc' = "done" /\ UNCHANGED <<frames, err, i>>
        ELSE IF ~Reshapes(frame_bytes, dims[1])
        THEN pc' = "error" /\ err' = ReshapeError /\ UNCHANGED <<frames, i>>
        ELSE /\ frames' = Append(frames, Frame(frame_bytes, dims[1]))
             /\ err' = err
             /\ IF SavesFrames(output_path)
                THEN pc' = "save" /\ i' = i
                ELSE pc' = "loop" /\ i' = i + frame_size
  /\ UNCHANGED <<fn, config, output_path, orig, stream, dims, frame_size,
                 buffer, max_frames, files, probes, runs>>

\* Image.fromarray(frame).save(...), then the next pass
SaveFrame ==
  /\ pc = "save"
  /\ files' = Append(files, FrameFileName(output_path[1], Len(frames)))
  /\ i' = i + frame_size
  /\ pc' = "loop"
  /\ UNCHANGED <<fn, config, output_path, orig, stream, dims, frame_size,
                 buffer, max_frames, frames, probes, runs, err>>

\* the save raises and the exception leaves the function
SaveFails ==
  /\ pc = "save"
  /\ pc' = "error"
  /\ err' = SaveError
  /\ UNCHANGED <<fn, config, output_path, orig, stream, dims, frame_size,
                 buffer, max_frames, i, frames, files, probes, runs>>

Next ==
  \/ Construct
  \/ CallTransform
  \/ CallBuffer
  \/ CallVideo
  \/ Probe
  \/ Transform
  \/ RunDecode
  \/ LoopEnd
  \/ LoopBody
  \/ SaveFrame
  \/ SaveFails

Spec == Init /\ [][Next]_vars

(* ------------------------------ properties ----------------------------- *)
\* transform_video_stream has returned its stream and dimensions
TransformReturned == fn \in {"transform", "video"} /\ ~IsNone(dims)

\* extract_frames_from_buffer has returned its list of frames
BufferReturned == fn \in {"buffer", "video"} /\ pc = "done"

\* the demuxer's input contract: frame_size = width * height * 3 > 0
FrameSizeFits == frame_size > 0 /\ frame_size = dims[1][1] * dims[1][2] * 3

\* C1: with max_frames = N >= 0 set (N = 0 included) and frame_size > 0,
\* extract_frames_from_buffer returns exactly
\* min(N, floor(len(buffer) / frame_size)) frames.
C1_CappedCount ==
  (BufferReturned /\ FrameSizeFits /\ ~IsNone(max_frames))
    => Len(frames) = Min(max_frames[1], Len(buffer) \div frame_size)

\* C2: with max_frames unset and a buffer of k * frame_size + r bytes,
\* 0 <= r < frame_size, the call returns without error exactly k frames in
\* buffer order, the j-th holding the bytes at offsets
\* [(j-1) * frame_size, j * frame_size); the last r bytes are in no frame.
C2_CompleteChunks ==
  (fn \in {"buffer", "video"} /\ FrameSizeFits /\ IsNone(max_frames))
    => /\ err \notin {RangeError, ReshapeError}
       /\ pc = "done" =>
            /\ Len(frames) = Len(buffer) \div frame_size
            /\ \A j \in 1..Len(frames) :
                 /\ Len(frames[j].data) = frame_size
                 /\ \A k \in 1..frame_size :
                      frames[j].data[k] = buffer[(j - 1) * frame_size + k]

C2_Witness ==
  /\ BufferReturned /\ FrameSizeFits /\ IsNone(max_frames)
  /\ Len(frames) = 2
  /\ Len(buffer) % frame_size # 0
  /\ frames[1].data # frames[2].data

\* C3: constructing a configuration never fails whatever resize_scale is;
\* transform_video_stream raises the resize_scale error exactly when
\* resize_scale is set and is not in (0, 1] (0, negative, above 1), and then
\* it returns no dimensions and has added no filter.
C3_ScaleValidation ==
  /\ pc = "built" => err = NoError /\ ~IsNone(config)
  /\ (TransformReturned \/ err = ScaleError) =>
       LET sc == config[1].resize_scale
           outside == ~IsNone(sc) /\ (sc[1][1] <= 0 \/ sc[1][1] > sc[1][2])
       IN /\ (err = ScaleError) <=> outside
          /\ err = ScaleError =>
               /\ pc = "error"
               /\ IsNone(dims)
               /\ \A k \in 1..Len(stream) :
                     stream[k].name \notin {"fps", "scale"}

C3_Witness ==
  /\ err = ScaleError
  /\ config[1].resize_scale[1][1] > config[1].resize_scale[1][2]
  /\ TruthyNum(config[1].fps)
  /\ TruthySeq(config[1].resize_dims)

\* C4: in extract_frames_from_video the resize_scale error is raised
\* before any I/O: the file is not probed and the decode process is not
\* started before the error reaches the caller.
C4_ErrorBeforeIO ==
  (fn = "video" /\ err = ScaleError) => probes = 0 /\ runs = 0

\* C5: an extraction call whose end_time is earlier than its start_time
\* (no start_time counting as zero) fails with a validation error: no
\* negative clip duration is ever recorded on the pipeline and the decode
\* process is never run for such a configuration.
C5_EndBeforeStart ==
  fn = "video" =>
    /\ \A k \in 1..Len(stream) :
         stream[k].kw = "duration" => stream[k].val[1] >= 0
    /\ LET c == config[1]
           st == IF IsNone(c.start_time) THEN <<0, 0, 0>> ELSE c.start_time[1]
       IN (~IsNone(c.end_time) /\ Len(c.end_time[1]) = 3
            /\ c.end_time[1][1] * 3600000 + c.end_time[1][2] * 60000
                 + c.end_time[1][3]
               < st[1] * 3600000 + st[2] * 60000 + st[3])
          => runs = 0 /\ pc # "done"

\* C6: the target dimensions follow strict precedence: resize_scale set
\* (and valid) gives (floor(orig_width * scale), floor(orig_height * scale))
\* whether or not resize_dims is set; otherwise resize_dims, if set,
\* unchanged; otherwise (orig_width, orig_height).
C6_DimsPrecedence ==
  TransformReturned =>
    LET c == config[1]
    IN dims[1] =
         IF ~IsNone(c.resize_scale)
         THEN <<(orig[1][1] * c.resize_scale[1][1]) \div c.resize_scale[1][2],
                (orig[1][2] * c.resize_scale[1][1]) \div c.resize_scale[1][2]>>
         ELSE IF ~IsNone(c.resize_dims) THEN c.resize_dims[1]
         ELSE orig[1]

C6_Witness ==
  /\ TransformReturned
  /\ ~IsNone(config[1].resize_scale)
  /\ ~IsNone(config[1].resize_dims)
  /\ dims # config[1].resize_dims
  /\ dims # orig

\* C7: the operations added by transform_video_stream are a sampling
\* operation exactly when fps is set and non-zero, then a scale operation
\* with the target width and height exactly when resize_scale or
\* resize_dims is set, in this order, and nothing else.
C7_OperationList ==
  TransformReturned =>
    LET c == config[1]
        Planned(n) == n.name \notin {"setpts", "output"}
        Window(n) == n.name = "setpts"
        sampling == IF ~IsNone(c.fps) /\ c.fps[1] # 0
                    THEN <<[name |-> "fps", kw |-> "fps", val |-> c.fps]>>
                    ELSE << >>
        scaling == IF ~IsNone(c.resize_scale) \/ ~IsNone(c.resize_dims)
                   THEN <<[name |-> "scale", kw |-> "", val |-> dims[1]]>>
                   ELSE << >>
        nwin == Len(SelectSeq(stream, Window))
    IN /\ SelectSeq(stream, Planned) = sampling \o scaling
       /\ SubSeq(stream, nwin + 1, nwin + Len(sampling) + Len(scaling))
            = sampling \o scaling

C7_Witness ==
  /\ TransformReturned
  /\ fn = "video"
  /\ Len(stream) >= 3
  /\ stream[1].name = "setpts"
  /\ stream[2].name = "fps"
  /\ stream[3].name = "scale"

RECURSIVE DigitsValue(_)
DigitsValue(ds) ==
  IF Len(ds) = 0 THEN 0
  ELSE 10 * DigitsValue(SubSeq(ds, 1, Len(ds) - 1)) + ds[Len(ds)]

\* C8: with an output directory, extract_frames_from_buffer writes one
\* file per returned frame and none for a frame cut off by max_frames or a
\* short last chunk; the j-th frame's file is frame_ + j padded with zeros
\* to 6 digits + .jpg, written before the next chunk is read, so the files
\* written are always frame_000001 .. frame_N for the N frames so far.
C8_FrameFiles ==
  fn \in {"buffer", "video"} =>
    /\ pc \in {"loop", "done"} =>
         Len(files) = IF ~IsNone(output_path) /\ output_path[1] # ""
                      THEN Len(frames) ELSE 0
    /\ pc = "save" => Len(files) = Len(frames) - 1
    /\ \A j \in 1..Len(files) :
         /\ files[j].dir = output_path[1]
         /\ files[j].stem = "frame_"
         /\ files[j].ext = ".jpg"
         /\ Len(files[j].digits) = 6
         /\ DigitsValue(files[j].digits) = j

C8_Witness ==
  /\ BufferReturned
  /\ Len(files) = 2
  /\ max_frames = Some(2)
  /\ Len(buffer) > 2 * frame_size

\* C9: one extraction call starts the decode process at most once; if the
\* process fails the call ends with the decode error, without a second
\* attempt, returning no frames and with no frame file written.
C9_NoRetry ==
  /\ runs <= 1
  /\ err = DecodeError =>
       /\ pc = "error"
       /\ runs = 1
       /\ frames = << >>
       /\ files = << >>
       /\ ~ENABLED Next

C9_Witness ==
  /\ err = DecodeError
  /\ runs = 1
  /\ probes = 1
  /\ ~IsNone(output_path) /\ output_path[1] = "out"

\* C10: in every extraction call that passes validation the frame_size
\* handed to the demuxer is positive: for resize_scale in (0, 1] and
\* source width and height >= 1, target width and height are both >= 1.
C10_PositiveFrameSize ==
  (fn = "video" /\ TransformReturned /\ ~IsNone(config[1].resize_scale)
     /\ orig[1][1] >= 1 /\ orig[1][2] >= 1)
    => /\ dims[1][1] >= 1
       /\ dims[1][2] >= 1
       /\ pc \in {"loop", "save", "done"} => frame_size > 0
====
